---- MODULE Spec2Model ----
(***************************************************************************)
(* Model of the WR-Sniper organizer (src/json-organizer.py): the flat      *)
(* block list written by the PDF converter is carved into the sections     *)
(* "Service Configurations" and "Site Operations", the latter into         *)
(* flexibility points and state sections, and then projected to a summary. *)
(*                                                                         *)
(* Text.  A Python string is modelled as a sequence of tokens (a token is  *)
(* a run of characters that no keyword of the program cuts in two), so     *)
(* that `kw in s`, startswith, endswith, strip and rstrip are computed on  *)
(* the text and not assumed.  " " and "\n" are the whitespace tokens and   *)
(* ":" is the colon.  The empty string is the empty sequence.              *)
(*                                                                         *)
(* Python's None is <<>> and an index i is <<i>>; indices are 0-based as   *)
(* in the source.  A dict is the sequence of its <<key, value>> pairs in   *)
(* insertion order.                                                        *)
(***************************************************************************)
EXTENDS Integers, Sequences, FiniteSets, TLC

VARIABLES json_data, pc, error, organized_data, summary,
          sc_blocks, so_blocks, fp_groups, fp_titles,
          converter, extracted, document_blocks, document_raw_text,
          program, overwrite, pdf_files, output_dir, results, runs, calls,
          disk, base_dir, input_path, recursive

\* the state of the converters
conv_vars == <<converter, extracted, document_blocks, document_raw_text>>

\* the state of a batch run: the program, its options, the files to
\* process, the output directory, the result list; calls is the history of
\* the process_file calls made so far
batch_vars == <<program, overwrite, pdf_files, output_dir, results, runs, calls>>

\* the state of the file detection: the directories and files on disk and
\* the arguments of detect_files_to_process
detect_vars == <<disk, base_dir, input_path, recursive>>

vars == <<json_data, pc, error, organized_data, summary,
          sc_blocks, so_blocks, fp_groups, fp_titles, conv_vars, batch_vars,
          detect_vars>>

(* ---------------------------------------------------------------------- *)
(* Bounds                                                                  *)
(* ---------------------------------------------------------------------- *)
MaxScBlocks == 4
MaxSoBlocks == 5
MaxTitleBlocks == 4
MaxRecordBlocks == 4
MaxSummaryBlocks == 4
MaxKeyLen == 4
MaxNoteBlocks == 3
MaxBoxlessBlocks == 3
MaxExtracted == 3
MaxBatch == 3
MaxRuns == 2
MaxDiskEntries == 3

(* ---------------------------------------------------------------------- *)
(* Python values                                                           *)
(* ---------------------------------------------------------------------- *)
None == <<>>
Some(i) == <<i>>

Whitespace == {" ", "\n", "\t"}

Min(a, b) == IF a < b THEN a ELSE b
Max(a, b) == IF a > b THEN a ELSE b

\* seq[start:stop] of Python; start is None or Some(i), stop is an integer
PySlice(s, start, stop) ==
    LET n  == Len(s)
        a0 == IF start = None THEN 0 ELSE start[1]
        lo == IF a0 < 0 THEN Max(n + a0, 0) ELSE Min(a0, n)
        hi == IF stop < 0 THEN Max(n + stop, 0) ELSE Min(stop, n)
    IN  SubSeq(s, lo + 1, hi)

\* kw in s
Contains(s, kw) ==
    \E i \in 1..(Len(s) - Len(kw) + 1) : SubSeq(s, i, i + Len(kw) - 1) = kw

\* s.startswith(p)
StartsWith(s, p) == Len(s) >= Len(p) /\ SubSeq(s, 1, Len(p)) = p

RECURSIVE LStrip(_)
LStrip(s) == IF s # <<>> /\ Head(s) \in Whitespace THEN LStrip(Tail(s)) ELSE s

RECURSIVE RStrip(_)
RStrip(s) ==
    IF s # <<>> /\ s[Len(s)] \in Whitespace
    THEN RStrip(SubSeq(s, 1, Len(s) - 1)) ELSE s

\* s.strip()
Strip(s) == LStrip(RStrip(s))

\* s.rstrip(":")
RECURSIVE RStripColon(_)
RStripColon(s) ==
    IF s # <<>> /\ s[Len(s)] = ":"
    THEN RStripColon(SubSeq(s, 1, Len(s) - 1)) ELSE s

\* "\n".join(lines)
RECURSIVE Join(_)
Join(lines) ==
    IF lines = <<>> THEN <<>>
    ELSE IF Len(lines) = 1 THEN lines[1]
    ELSE lines[1] \o <<"\n">> \o Join(Tail(lines))

\* dict operations, insertion ordered
DictKeys(d) == {d[i][1] : i \in DOMAIN d}
DictHas(d, k) == k \in DictKeys(d)
DictGet(d, k, default) ==
    IF DictHas(d, k) THEN d[CHOOSE i \in DOMAIN d : d[i][1] = k][2] ELSE default
DictSet(d, k, v) ==
    IF DictHas(d, k)
    THEN [i \in DOMAIN d |-> IF d[i][1] = k THEN <<k, v>> ELSE d[i]]
    ELSE Append(d, <<k, v>>)

(* ---------------------------------------------------------------------- *)
(* Keywords of the program                                                 *)
(* ---------------------------------------------------------------------- *)
KwServiceConfigurations == <<"Service Configurations">>
KwSiteOperations == <<"Site Operations">>
KwFile == <<"file://">>
KwFlexibilityPoint == <<"Flexibility point">>
KeySubscriberAddress == <<"Subscriber address", ":">>
KeyServiceID == <<"Service ID", ":">>
line_keys == <<KeySubscriberAddress, KeyServiceID>>
HeaderX0Threshold == 80

(* ---------------------------------------------------------------------- *)
(* find_block_num_with_keyword(blocks, keyword), keys_only, substring      *)
(* ---------------------------------------------------------------------- *)
KeyMatches(block, keyword) ==
    block.lines # <<>> /\ Contains(block.lines[1], keyword)

find_block_num_with_keyword(blocks, keyword) ==
    IF \E i \in DOMAIN blocks : KeyMatches(blocks[i], keyword)
    THEN LET first == CHOOSE i \in DOMAIN blocks :
                         /\ KeyMatches(blocks[i], keyword)
                         /\ \A j \in 1..(i - 1) : ~KeyMatches(blocks[j], keyword)
         IN  Some(first - 1)
    ELSE None

\* key.strip().rstrip(":").strip()
standardize_key(key) == Strip(RStripColon(Strip(key)))

(* ---------------------------------------------------------------------- *)
(* organize_json                                                           *)
(* ---------------------------------------------------------------------- *)
EmptyOrganized ==
    [ServiceConfigurations |-> <<>>, FlexibilityPoints |-> <<>>]

\* content = json_data.get("content", {}); blocks = content.get("blocks", [])
Blocks(jd) ==
    IF "content" \in DOMAIN jd /\ "blocks" \in DOMAIN jd.content
    THEN jd.content.blocks ELSE <<>>

\* line 53 subtracts 1 from the search result: None - 1 is a TypeError
ScRaises(blocks) == find_block_num_with_keyword(blocks, KwSiteOperations) = None

ScEndBlockNo(blocks) ==
    find_block_num_with_keyword(blocks, KwSiteOperations)[1] - 1

ScBlocks(blocks) ==
    PySlice(blocks,
            find_block_num_with_keyword(blocks, KwServiceConfigurations),
            ScEndBlockNo(blocks))

\* line 70: block["lines"] and key in block["lines"][0] and len(block["lines"]) > 1
FieldMatch(block, key) ==
    /\ block.lines # <<>>
    /\ Contains(block.lines[1], key)
    /\ Len(block.lines) > 1

\* a variant of line 76 that keeps an empty value
ValueAcceptedAlways(line_value) == TRUE

\* line 76: if line_value
ValueAccepted(line_value) == line_value # <<>>

\* a variant of line 66 that forgets which keys were found
AlreadyFoundNever(key, found) == FALSE

\* line 66: if key in found_keys: continue
AlreadyFound(key, found) == key \in found

\* the inner loop over line_keys for one block (lines 65-82)
RECURSIVE ScanKeys(_, _, _)
ScanKeys(block, ki, st) ==
    IF ki > Len(line_keys) THEN st
    ELSE LET key == line_keys[ki] IN
         IF AlreadyFound(key, st.found) THEN ScanKeys(block, ki + 1, st)
         ELSE IF FieldMatch(block, key) /\ ValueAccepted(Join(Tail(block.lines)))
         THEN LET st2 == [map   |-> DictSet(st.map,
                                            standardize_key(block.lines[1]),
                                            Join(Tail(block.lines))),
                          found |-> st.found \cup {key}]
              IN  IF Cardinality(st2.found) = Len(line_keys) THEN st2
                  ELSE ScanKeys(block, ki + 1, st2)
         ELSE ScanKeys(block, ki + 1, st)

\* the outer loop over sc_blocks (lines 60-63)
RECURSIVE ScanBlocks(_, _, _)
ScanBlocks(blocks, bi, st) ==
    IF bi > Len(blocks) THEN st
    ELSE IF Cardinality(st.found) = Len(line_keys) THEN st
    ELSE ScanBlocks(blocks, bi + 1, ScanKeys(blocks[bi], 1, st))

ExtractFields(blocks) == ScanBlocks(blocks, 1, [map |-> <<>>, found |-> {}]).map

\* lines 87-90: try: find(...) - 1  except: len(blocks) - 1
SoEndBlockNo(blocks) ==
    IF find_block_num_with_keyword(blocks, KwFile) = None
    THEN Len(blocks) - 1
    ELSE find_block_num_with_keyword(blocks, KwFile)[1] - 1

SoBlocks(blocks) ==
    PySlice(blocks,
            find_block_num_with_keyword(blocks, KwSiteOperations),
            SoEndBlockNo(blocks))

\* lines 94-97, 0-based indices into so_blocks, ascending
IsFpMarker(block) ==
    block.lines # <<>> /\ Contains(block.lines[1], KwFlexibilityPoint)

RECURSIVE FpIndicesFrom(_, _)
FpIndicesFrom(blocks, i) ==
    IF i > Len(blocks) THEN <<>>
    ELSE IF IsFpMarker(blocks[i])
         THEN <<i - 1>> \o FpIndicesFrom(blocks, i + 1)
         ELSE FpIndicesFrom(blocks, i + 1)

FpIndices(blocks) == FpIndicesFrom(blocks, 1)

\* a variant of lines 110-112 that numbers the fallback titles from 0
FallbackTitleZeroBased(i) == <<"Flexibility Point ", ToString(i)>>

\* f"Flexibility Point {i+1}", i the 0-based ordinal of the marker
FallbackTitle(i) == <<"Flexibility Point ", ToString(i + 1)>>

\* lines 107-112; block is so_blocks[fp_index]
FpTitle(block, i) ==
    IF Len(block.lines) >= 2
    THEN IF block.lines[2] # <<>> THEN block.lines[2] ELSE FallbackTitle(i)
    ELSE FallbackTitle(i)

\* a variant of line 115 that stops one block before the next marker
EndIndexShort(so, fp_indices, i) ==
    IF i + 1 < Len(fp_indices) THEN fp_indices[i + 2] - 1 ELSE Len(so)

\* line 115; i is 0-based
EndIndex(so, fp_indices, i) ==
    IF i + 1 < Len(fp_indices) THEN fp_indices[i + 2] ELSE Len(so)

\* a variant of line 118 that starts after the marker block
FpBlocksAfterMarker(so, fp_indices, i) ==
    PySlice(so, Some(fp_indices[i + 1] + 1), EndIndex(so, fp_indices, i))

\* line 118
FpBlocks(so, fp_indices, i) ==
    PySlice(so, Some(fp_indices[i + 1]), EndIndex(so, fp_indices, i))

\* block.get("position", [0])[0]
PositionX0(block) ==
    IF "position" \in DOMAIN block THEN block.position[1] ELSE 0

\* subscripting a position that is None is a TypeError (line 131)
HeaderCheckRaises(block) ==
    /\ Len(block.lines) = 1
    /\ "position" \in DOMAIN block
    /\ block.position = None

\* a variant of lines 130-131 that takes the threshold itself as a header offset
IsStateHeaderAtThreshold(block) ==
    Len(block.lines) = 1 /\ PositionX0(block) >= HeaderX0Threshold

\* lines 130-131
IsStateHeader(block) ==
    Len(block.lines) = 1 /\ PositionX0(block) > HeaderX0Threshold

RECURSIVE StateHeaderIndicesFrom(_, _)
StateHeaderIndicesFrom(blocks, j) ==
    IF j > Len(blocks) THEN <<>>
    ELSE IF IsStateHeader(blocks[j])
         THEN <<j - 1>> \o StateHeaderIndicesFrom(blocks, j + 1)
         ELSE StateHeaderIndicesFrom(blocks, j + 1)

StateHeaderIndices(blocks) == StateHeaderIndicesFrom(blocks, 1)

\* a variant of line 148 that runs every section to the end of the record
SectionEndOfRecord(fp_blocks, hdr, j) == Len(fp_blocks)

\* line 148
SectionEnd(fp_blocks, hdr, j) ==
    IF j + 1 < Len(hdr) THEN hdr[j + 2] ELSE Len(fp_blocks)

\* lines 142-154, j is 0-based
RECURSIVE GroupSections(_, _, _, _)
GroupSections(fp_blocks, hdr, j, sections) ==
    IF j >= Len(hdr) THEN sections
    ELSE GroupSections(fp_blocks, hdr, j + 1,
            DictSet(sections,
                    standardize_key(fp_blocks[hdr[j + 1] + 1].lines[1]),
                    PySlice(fp_blocks, Some(hdr[j + 1]),
                            SectionEnd(fp_blocks, hdr, j))))

\* a variant of line 139 that takes the first header into info
InfoBlocksThroughHeader(fp_blocks, hdr) == PySlice(fp_blocks, None, hdr[1] + 1)

\* line 139: fp_blocks[:state_header_indices[0]]
InfoBlocks(fp_blocks, hdr) == PySlice(fp_blocks, None, hdr[1])

\* lines 121-154
OrganizedFp(fp_blocks) ==
    LET hdr == StateHeaderIndices(fp_blocks) IN
    IF hdr = <<>>
    THEN [info |-> fp_blocks, state_sections |-> <<>>]
    ELSE [info |-> InfoBlocks(fp_blocks, hdr),
          state_sections |-> GroupSections(fp_blocks, hdr, 0, <<>>)]

\* a variant of line 157 that keeps the record already stored under the title
StoreFpKeepFirst(fps, fp_title, organized_fp) ==
    IF DictHas(fps, fp_title) THEN fps ELSE DictSet(fps, fp_title, organized_fp)

\* line 157: organized_data[...]["Flexibility Points"][fp_title] = organized_fp
StoreFp(fps, fp_title, organized_fp) == DictSet(fps, fp_title, organized_fp)

\* lines 105-157, i is 0-based
RECURSIVE GroupFps(_, _, _, _)
GroupFps(so, fp_indices, i, fps) ==
    IF i >= Len(fp_indices) THEN fps
    ELSE GroupFps(so, fp_indices, i + 1,
            StoreFp(fps,
                    FpTitle(so[fp_indices[i + 1] + 1], i),
                    OrganizedFp(FpBlocks(so, fp_indices, i))))

\* the value of the local fp_blocks in each iteration of the loop of line 105
FpGroups(so) ==
    [i \in 1..Len(FpIndices(so)) |-> FpBlocks(so, FpIndices(so), i - 1)]

\* the value of the local fp_title in each iteration of the loop of line 105
FpTitles(so) ==
    [i \in 1..Len(FpIndices(so)) |-> FpTitle(so[FpIndices(so)[i] + 1], i - 1)]

\* the header test of line 130 is evaluated on every block of every group
FpRaises(so) ==
    \E g \in DOMAIN FpGroups(so) :
        \E j \in DOMAIN FpGroups(so)[g] : HeaderCheckRaises(FpGroups(so)[g][j])

Raises(blocks) == ScRaises(blocks) \/ FpRaises(SoBlocks(blocks))

organize_json(jd) ==
    LET blocks == Blocks(jd)
        so     == SoBlocks(blocks)
    IN  [ServiceConfigurations |-> ExtractFields(ScBlocks(blocks)),
         FlexibilityPoints     |-> GroupFps(so, FpIndices(so), 0, <<>>)]

(* ---------------------------------------------------------------------- *)
(* create_summary_json                                                     *)
(* ---------------------------------------------------------------------- *)
AddressPrefix == <<"Address", ":", " ">>
ActionKeywords == {<<"Add">>, <<"Connect">>, <<"Remove">>}
NotesKey == <<"Notes">>

\* lines 192-195: the first line that starts with "Address: " and has a successor
AddressHits(lines) ==
    {i \in DOMAIN lines : StartsWith(lines[i], AddressPrefix) /\ i < Len(lines)}

AddressOfBlock(lines, address) ==
    IF AddressHits(lines) = {} THEN address
    ELSE lines[(CHOOSE i \in AddressHits(lines) :
                   \A k \in AddressHits(lines) : i <= k) + 1]

\* lines 187-195: the loop over the info blocks
RECURSIVE FindAddress(_, _, _)
FindAddress(info, bi, address) ==
    IF bi > Len(info) THEN address
    ELSE FindAddress(info, bi + 1, AddressOfBlock(info[bi].lines, address))

\* a variant of line 199 that knows the keyword "Add" only
IsActionHeaderAddOnly(header) == Contains(header, <<"Add">>)

\* line 199
IsActionHeader(header) == \E kw \in ActionKeywords : Contains(header, kw)

\* line 210: lines[0].rstrip().endswith(':')
EndsWithColon(line) ==
    RStrip(line) # <<>> /\ RStrip(line)[Len(RStrip(line))] = ":"

\* lines 206-221 for one block of the section
ActionStep(action_content, lines) ==
    IF lines = <<>> THEN action_content
    ELSE IF EndsWithColon(lines[1])
    THEN DictSet(action_content, standardize_key(lines[1]),
                 IF Len(lines) > 1 THEN Join(Tail(lines)) ELSE <<>>)
    ELSE IF ~DictHas(action_content, NotesKey)
    THEN DictSet(action_content, NotesKey, Join(lines))
    ELSE DictSet(action_content, NotesKey,
                 DictGet(action_content, NotesKey, <<>>) \o <<"\n">> \o Join(lines))

\* a variant of line 204 that does not skip the header block
ActionBlocksWithHeader(section) == section

\* line 204: section[1:]
ActionBlocks(section) == PySlice(section, Some(1), Len(section))

\* lines 201-221: the blocks after the header folded into action_content
RECURSIVE ActionContent(_, _, _)
ActionContent(section, bi, action_content) ==
    IF bi > Len(section) THEN action_content
    ELSE ActionContent(section, bi + 1,
                       ActionStep(action_content, section[bi].lines))

\* lines 198-224
RECURSIVE Actions(_, _, _)
Actions(state_sections, si, actions) ==
    IF si > Len(state_sections) THEN actions
    ELSE IF IsActionHeader(state_sections[si][1])
    THEN Actions(state_sections, si + 1,
                 DictSet(actions, state_sections[si][1],
                         ActionContent(ActionBlocks(state_sections[si][2]),
                                       1, <<>>)))
    ELSE Actions(state_sections, si + 1, actions)

\* lines 180-227 for one flexibility point
FpSummary(fp_title, fp_data) ==
    [name    |-> fp_title,
     address |-> FindAddress(fp_data.info, 1, <<>>),
     actions |-> Actions(fp_data.state_sections, 1, <<>>)]

EmptySummary ==
    [SubscriberAddress |-> <<>>, LID |-> <<>>, FlexibilityPoints |-> <<>>]

\* a variant of lines 172-173 that looks the label up as written
SummaryKeyRaw(label) == label

\* lines 172-173: the key under which a root field is looked up
SummaryKey(label) == standardize_key(label)

create_summary_json(od) ==
    [SubscriberAddress |->
        DictGet(od.ServiceConfigurations,
                SummaryKey(<<"Subscriber address", ":", " ">>), <<>>),
     LID |->
        DictGet(od.ServiceConfigurations,
                SummaryKey(<<"Service ID", ":", " ">>), <<>>),
     FlexibilityPoints |->
        [i \in DOMAIN od.FlexibilityPoints |->
            FpSummary(od.FlexibilityPoints[i][1], od.FlexibilityPoints[i][2])]]

(* ---------------------------------------------------------------------- *)
(* Input documents                                                         *)
(* ---------------------------------------------------------------------- *)
\* a block as the converter writes it: page, lines, position (x0, y0, x1, y1)
Block(lines, x0) ==
    [page |-> 1, lines |-> lines, position |-> <<x0, 0, x0 + 100, 10>>]

BServiceConfigurations == Block(<< <<"Service Configurations">> >>, 50)
BSiteOperations == Block(<< <<"Site Operations">> >>, 50)
BFileFooter == Block(<< <<"file://", "/C:/report.html">> >>, 50)
BSubscriber1 == Block(<< <<"Subscriber address", ":">>, <<"123 Main St">> >>, 50)
BSubscriber2 == Block(<< <<"Subscriber address", ":">>, <<"9 Elm St">> >>, 50)
BSubscriberNoValue == Block(<< <<"Subscriber address", ":">> >>, 50)
BSubscriberEmptyValue == Block(<< <<"Subscriber address", ":">>, <<>> >>, 50)
BServiceID == Block(<< <<"Service ID", ":">>, <<"SVC-42">> >>, 50)
\* key lines that name both labels, the first without the final colon
BBothLabelsOpen ==
    Block(<< <<"Subscriber address", ":", " ", "Service ID">>, <<"A-1">> >>, 50)
BBothLabels ==
    Block(<< <<"Subscriber address", ":", " ", "Service ID", ":">>, <<"B-2">> >>, 50)
BFlexibilityPoint == Block(<< <<"Flexibility point">>, <<"FP-A">> >>, 50)
BFlexibilityPointUntitled == Block(<< <<"Flexibility point">> >>, 50)
BAddress == Block(<< <<"Address", ":">>, <<"5 Cable Rd">> >>, 50)
BAddEquipment == Block(<< <<"Add", " ", "equipment">> >>, 85)
BType == Block(<< <<"Type", ":">>, <<"Splitter">> >>, 50)
\* markers whose title line is empty, or reads like a fallback title
BFlexibilityPointEmptyTitle == Block(<< <<"Flexibility point">>, <<>> >>, 50)
BFlexibilityPointNamed2 ==
    Block(<< <<"Flexibility point">>, <<"Flexibility Point ", "2">> >>, 50)
\* candidates for state headers
BRemoveCable == Block(<< <<"Remove", " ", "cable", ":">> >>, 85)
BExistingEquipment == Block(<< <<"Existing", " ", "add", "-on">> >>, 85)
BAddEquipmentAt80 == Block(<< <<"Add", " ", "equipment">> >>, 80)
BAddEquipmentAt79 == Block(<< <<"Add", " ", "equipment">> >>, 79)
BTypeAt85 == Block(<< <<"Type", ":">>, <<"Splitter">> >>, 85)
\* content of records and sections
BTypeNoValue == Block(<< <<"Type", ":">> >>, 50)
BNoteFoo == Block(<< <<"foo">> >>, 50)
BAddressA == Block(<< <<"Address", ":", " ">>, <<"5 Cable Rd">> >>, 50)
BAddressB == Block(<< <<"Address", ":", " ">>, <<"7 Fiber Ln">> >>, 50)
BNoteBar == Block(<< <<"bar">>, <<"baz">> >>, 50)
BNotesLabel == Block(<< <<"Notes", ":">>, <<"x">> >>, 50)

\* the end-to-end scenario of the specification
Scenario ==
    << BServiceConfigurations, BSubscriber1, BServiceID, BSiteOperations,
       BFlexibilityPoint, BAddress, BAddEquipment, BType >>

ScPalette ==
    { BServiceConfigurations, BSiteOperations, BSubscriber1, BSubscriber2,
      BSubscriberNoValue, BSubscriberEmptyValue, BServiceID,
      BBothLabelsOpen, BBothLabels }

SoPalette ==
    { BSiteOperations, BFileFooter, BFlexibilityPoint,
      BFlexibilityPointUntitled, BAddEquipment, BType }

TitlePalette ==
    { BFlexibilityPoint, BFlexibilityPointUntitled, BFlexibilityPointEmptyTitle,
      BFlexibilityPointNamed2, BAddEquipment, BType }

HeaderPalette ==
    { BAddEquipment, BRemoveCable, BAddEquipmentAt80, BAddEquipmentAt79,
      BTypeAt85, BType }

SummaryPalette ==
    { BAddressA, BAddressB, BAddEquipment, BRemoveCable, BExistingEquipment,
      BType, BTypeNoValue, BNoteFoo }

KeyTokens == {"a", " ", ":"}

DocsOver(palette, maxLen) == UNION {[1..n -> palette] : n \in 0..maxLen}

\* a Site-Operations section made of markers and content
TitleDocs ==
    {<<BSiteOperations>> \o d : d \in DocsOver(TitlePalette, MaxTitleBlocks)}

\* one record: the heading, a marker, the content, and a closing block
RecordDoc(d) == <<BSiteOperations, BFlexibilityPoint>> \o d \o <<BType>>

HeaderDocs == {RecordDoc(d) : d \in DocsOver(HeaderPalette, MaxRecordBlocks)}

SummaryDocs == {RecordDoc(d) : d \in DocsOver(SummaryPalette, MaxSummaryBlocks)}

\* one record with one action section of notes and labelled values
NotesPalette == { BNoteFoo, BNoteBar, BNotesLabel, BType }

NotesDocs ==
    {RecordDoc(<<BAddEquipment>> \o d) : d \in DocsOver(NotesPalette, MaxNoteBlocks)}

\* one record whose only content is a state header with an arbitrary text
KeyDocs == {RecordDoc(<<Block(<<k>>, 85)>>) : k \in DocsOver(KeyTokens, MaxKeyLen)}

\* the scenario with any of its blocks left out, order kept
RECURSIVE Pick(_, _)
Pick(seq, keep) ==
    IF seq = <<>> THEN <<>>
    ELSE IF Len(seq) \in keep
         THEN Append(Pick(SubSeq(seq, 1, Len(seq) - 1), keep), seq[Len(seq)])
         ELSE Pick(SubSeq(seq, 1, Len(seq) - 1), keep)

ScenarioDocs == {Pick(Scenario, keep) : keep \in SUBSET (1..Len(Scenario))}

InputDocs ==
    DocsOver(ScPalette, MaxScBlocks) \cup DocsOver(SoPalette, MaxSoBlocks)
        \cup ScenarioDocs \cup TitleDocs \cup HeaderDocs \cup SummaryDocs
        \cup KeyDocs \cup NotesDocs

(* ---------------------------------------------------------------------- *)
(* The program: load, organize, summarize (the __main__ block)             *)
(* ---------------------------------------------------------------------- *)
(* ---------------------------------------------------------------------- *)
(* The converters: pdf_converter_single.py (blocks) and pdf_converter.py   *)
(* (lines).  The text extraction of PyMuPDF is outside the program: the    *)
(* model starts from the list the loops over pages and blocks append to.   *)
(* ---------------------------------------------------------------------- *)
\* sort_key: (page, y0, x0), and (page, 0, 0) without a position
sort_key(block) ==
    IF block.position # None
    THEN <<block.page, block.position[2], block.position[1]>>
    ELSE <<block.page, 0, 0>>

\* tuple comparison of Python
KeyLess(a, b) ==
    \/ a[1] < b[1]
    \/ a[1] = b[1] /\ a[2] < b[2]
    \/ a[1] = b[1] /\ a[2] = b[2] /\ a[3] < b[3]

\* a variant of the insertion that puts a block before the blocks of equal key
RECURSIVE InsertByKeyBeforeEqual(_, _)
InsertByKeyBeforeEqual(sorted, block) ==
    IF sorted = <<>> THEN <<block>>
    ELSE IF ~KeyLess(sort_key(Head(sorted)), sort_key(block))
    THEN <<block>> \o sorted
    ELSE <<Head(sorted)>> \o InsertByKeyBeforeEqual(Tail(sorted), block)

\* list.sort is stable: a block goes behind every block whose key is not greater
RECURSIVE InsertByKey(_, _)
InsertByKey(sorted, block) ==
    IF sorted = <<>> THEN <<block>>
    ELSE IF KeyLess(sort_key(block), sort_key(Head(sorted)))
    THEN <<block>> \o sorted
    ELSE <<Head(sorted)>> \o InsertByKey(Tail(sorted), block)

\* document_blocks.sort(key=sort_key)
RECURSIVE SortBlocks(_)
SortBlocks(blocks) ==
    IF blocks = <<>> THEN <<>>
    ELSE InsertByKey(SortBlocks(SubSeq(blocks, 1, Len(blocks) - 1)),
                     blocks[Len(blocks)])

\* block["line_num"] = block_num, counted from 1
SetLineNum(block, n) ==
    [f \in DOMAIN block \cup {"line_num"} |->
        IF f = "line_num" THEN n ELSE block[f]]

NumberBlocks(blocks) == [i \in DOMAIN blocks |-> SetLineNum(blocks[i], i)]

RECURSIVE RStripNewlines(_)
RStripNewlines(s) ==
    IF s # <<>> /\ s[Len(s)] = "\n"
    THEN RStripNewlines(SubSeq(s, 1, Len(s) - 1)) ELSE s

\* pdf_converter_single.py: "\n".join(block["lines"]) + "\n" for every block
RECURSIVE RawOfBlocks(_)
RawOfBlocks(blocks) ==
    IF blocks = <<>> THEN <<>>
    ELSE Join(Head(blocks).lines) \o <<"\n">> \o RawOfBlocks(Tail(blocks))

\* pdf_converter.py: "\n".join(line["text"] for line in document_lines)
RawOfLines(lines) == Join([i \in DOMAIN lines |-> lines[i].text])

\* create_json_structure; the file's name, hash and the date are left out
create_json_structure(document_lines, raw) ==
    [metadata    |-> [page_count |->
                         Cardinality({document_lines[i].page :
                                         i \in DOMAIN document_lines})],
     content     |-> [lines |-> document_lines, raw |-> raw],
     annotations |-> [labeled |-> FALSE]]

\* what PyMuPDF yields, in emission order
ExtractedBlock(lines, page, y0, x0) ==
    [page |-> page, lines |-> lines, position |-> <<x0, y0, x0 + 100, y0 + 10>>]

ExtractedLine(text, page, line_num, position) ==
    [page |-> page, line_num |-> line_num, text |-> text, position |-> position]

ESiteOperations == ExtractedBlock(<< <<"Site Operations">> >>, 1, 10, 50)
EFlexibilityPoint ==
    ExtractedBlock(<< <<"Flexibility point">>, <<"FP-A">> >>, 1, 20, 50)
EAddEquipment == ExtractedBlock(<< <<"Add", " ", "equipment">> >>, 1, 30, 85)
EType == ExtractedBlock(<< <<"Type", ":">>, <<"Splitter">> >>, 1, 30, 50)
ENote == ExtractedBlock(<< <<"foo">> >>, 1, 30, 85)
ETypePage2 == ExtractedBlock(<< <<"Type", ":">>, <<"Splitter">> >>, 2, 10, 50)

ExtractedBlockPalette ==
    { ESiteOperations, EFlexibilityPoint, EAddEquipment, EType, ENote, ETypePage2 }

LSiteOperations == ExtractedLine(<<"Site Operations">>, 1, 1, <<50, 10, 150, 20>>)
LFlexibilityPoint ==
    ExtractedLine(<<"Flexibility point">>, 1, 2, <<50, 20, 150, 40>>)
LTitle == ExtractedLine(<<"FP-A">>, 1, 3, <<50, 20, 150, 40>>)
LUnplaced == ExtractedLine(<<"foo">>, 1, 4, None)
LUnplacedPage2 == ExtractedLine(<<"bar">>, 2, 1, None)

ExtractedLinePalette ==
    { LSiteOperations, LFlexibilityPoint, LTitle, LUnplaced, LUnplacedPage2 }

IdleConverter ==
    /\ converter = "none"
    /\ extracted = <<>>
    /\ document_blocks = <<>>
    /\ document_raw_text = <<>>

(* ---------------------------------------------------------------------- *)
(* Batch conversion: PDFConverter.process_file and the loops of main and   *)
(* process_directory, in pdf_converter.py and pdf_converter_batch.py.      *)
(* ---------------------------------------------------------------------- *)
\* a PDF on disk; kind says what reading it does: "ok", "corrupt" (PyMuPDF
\* raises on it) or "unreadable" (open() raises on it)
PdfFile(dir, stem, kind) == [dir |-> dir, stem |-> stem, kind |-> kind]

FReport == PdfFile(<<"pdf">>, "a", "ok")
FReportCopy == PdfFile(<<"pdf", "sub">>, "a", "ok")
FCorrupt == PdfFile(<<"pdf">>, "b", "corrupt")
FUnreadable == PdfFile(<<"pdf">>, "c", "unreadable")

PdfFiles == { FReport, FReportCopy, FCorrupt, FUnreadable }

Stems == {f.stem : f \in PdfFiles}

\* a JSON file left by an earlier conversion
OldJson == [file |-> FReport, page_count |-> 1, processed_date |-> 0]

\* PDFConverter.extract_text_from_pdf.  pdf_converter.py logs the error of
\* PyMuPDF and returns what it has; pdf_converter_batch.py calls
\* pdf_converter.extract_text_from_pdf_path, which pdf_converter.py does not
\* define, and re-raises
extract_text_from_pdf(prog, file) ==
    IF prog = "pdf_converter"
    THEN [raised |-> FALSE, exc |-> "",
          page_count |-> IF file.kind = "ok" THEN 1 ELSE 0]
    ELSE [raised |-> TRUE, exc |-> "AttributeError", page_count |-> 0]

\* PDFConverter.convert_pdf_to_json: the hash of the file, then the text
convert_pdf_to_json(prog, file, date) ==
    IF file.kind = "unreadable"
    THEN [raised |-> TRUE, exc |-> "OSError", json |-> None]
    ELSE IF extract_text_from_pdf(prog, file).raised
    THEN [raised |-> TRUE, exc |-> extract_text_from_pdf(prog, file).exc,
          json |-> None]
    ELSE [raised |-> FALSE, exc |-> "",
          json |-> [file |-> file,
                    page_count |-> extract_text_from_pdf(prog, file).page_count,
                    processed_date |-> date]]

\* a variant of the test that never skips
ShouldSkipNever(exists, overwriting) == FALSE

\* json_path.exists() and not self.overwrite
ShouldSkip(exists, overwriting) == exists /\ ~overwriting

\* PDFConverter.process_file with save and an output directory: what it
\* returns ("none", "json" or "raised") and the output directory afterwards
process_file(prog, overwriting, out, file, date) ==
    IF ShouldSkip(out[file.stem] # None, overwriting)
    THEN [ret |-> "none", out |-> out]
    ELSE IF convert_pdf_to_json(prog, file, date).raised
    THEN [ret |-> "raised", out |-> out]
    ELSE [ret |-> "json",
          out |-> [out EXCEPT ![file.stem] =
                      convert_pdf_to_json(prog, file, date).json]]

\* the status the loop records for one file
StatusOf(ret) ==
    IF ret = "raised" THEN "failed"
    ELSE IF ret = "none" THEN "skipped" ELSE "success"

\* a variant of the loop that ends at the first failure
LoopGoesOnUntilFailure(done, files) ==
    /\ Len(done) < Len(files)
    /\ \A i \in DOMAIN done : done[i][2] # "failed"

\* for pdf_path in pdf_files_to_process
LoopGoesOn(done, files) == Len(done) < Len(files)

IdleBatch ==
    /\ program = "none"
    /\ overwrite = FALSE
    /\ pdf_files = <<>>
    /\ output_dir = <<>>
    /\ results = <<>>
    /\ runs = 0
    /\ calls = <<>>

(* ---------------------------------------------------------------------- *)
(* File detection: detect_files_to_process, the same in pdf_converter.py   *)
(* and pdf_converter_batch.py.                                             *)
(* ---------------------------------------------------------------------- *)
\* a Path: the directory parts as they were given and the file name, a
\* sequence of characters; the path of a directory has the empty name.
\* Two Paths are equal when parts and name are
Path(dir, name) == [dir |-> dir, name |-> name]

\* the working directory of the program
Cwd == <<"work">>

RECURSIVE Climb(_, _)
Climb(stack, parts) ==
    IF parts = <<>> THEN stack
    ELSE IF Head(parts) = ".."
    THEN Climb(IF stack = <<>> THEN <<>> ELSE SubSeq(stack, 1, Len(stack) - 1),
               Tail(parts))
    ELSE Climb(Append(stack, Head(parts)), Tail(parts))

\* the directory the operating system reaches through the parts: relative
\* parts start at the working directory and ".." leaves a directory
Resolve(parts) ==
    IF parts # <<>> /\ Head(parts) = "/"
    THEN Climb(<<>>, Tail(parts))
    ELSE Climb(Cwd, parts)

\* str.lower on the letters that occur in the names
LowerChar(c) ==
    IF c = "D" THEN "d"
    ELSE IF c = "F" THEN "f"
    ELSE IF c = "I" THEN "i"
    ELSE IF c = "P" THEN "p"
    ELSE c

Lower(s) == [i \in DOMAIN s |-> LowerChar(s[i])]

LastDot(name) ==
    IF \E i \in DOMAIN name : name[i] = "."
    THEN CHOOSE i \in DOMAIN name :
            /\ name[i] = "."
            /\ \A j \in DOMAIN name : name[j] = "." => j <= i
    ELSE 0

\* Path.suffix: the name from its last dot on, unless the name starts or
\* ends with that dot
suffix(name) ==
    IF LastDot(name) > 1 /\ LastDot(name) < Len(name)
    THEN SubSeq(name, LastDot(name), Len(name))
    ELSE <<>>

\* Path.stem: the name without its suffix
stem(name) == SubSeq(name, 1, Len(name) - Len(suffix(name)))

DISALLOWED_FILE_NAMES ==
    { <<"i", "n", "d", "e", "x">>, <<"c", "o", "n", "f", "i", "g">>,
      <<"d", "b">>, <<"l", "o", "g">>, <<"e", "r", "r", "o", "r">>,
      <<"t", "e", "m", "p">>, <<"b", "a", "c", "k", "u", "p">>,
      <<"l", "a", "b", "e", "l">>, <<"l", "a", "b", "e", "l", "s">>,
      <<"j", "s", "o", "n">> }

\* f.stem.lower() in DISALLOWED_FILE_NAMES
Reserved(path) == Lower(stem(path.name)) \in DISALLOWED_FILE_NAMES

\* the pattern *.pdf on a name, letter case respected
MatchesPdf(name) ==
    /\ Len(name) >= 4
    /\ SubSeq(name, Len(name) - 3, Len(name)) = <<".", "p", "d", "f">>

\* an entry of a directory on disk: dir is the directory as resolved
Entry(dir, name, type) == [dir |-> dir, name |-> name, type |-> type]

exists(d, path) ==
    IF path.name = <<>>
    THEN Resolve(path.dir) \in d.dirs
    ELSE \E e \in d.entries : e.dir = Resolve(path.dir) /\ e.name = path.name

is_file(d, path) ==
    /\ path.name # <<>>
    /\ Entry(Resolve(path.dir), path.name, "file") \in d.entries

is_dir(d, path) ==
    IF path.name = <<>>
    THEN Resolve(path.dir) \in d.dirs
    ELSE Entry(Resolve(path.dir), path.name, "dir") \in d.entries

IsPrefix(a, b) == Len(a) <= Len(b) /\ SubSeq(b, 1, Len(a)) = a

\* path.glob("**/*.pdf") or path.glob("*.pdf"): the matching entries below
\* the directory, each spelled from the parts of path on.  The named
\* directories of the disks considered are empty
glob(d, path, deep) ==
    IF path.name # <<>> THEN {}
    ELSE {Path(path.dir \o SubSeq(e.dir, Len(Resolve(path.dir)) + 1, Len(e.dir)),
               e.name) :
            e \in {x \in d.entries :
                    /\ MatchesPdf(x.name)
                    /\ IF deep THEN IsPrefix(Resolve(path.dir), x.dir)
                       ELSE x.dir = Resolve(path.dir)}}

\* input_path.mkdir(parents=True, exist_ok=True)
mkdir(d, path) ==
    [dirs |-> d.dirs \cup
                {SubSeq(Resolve(path.dir), 1, n) : n \in 0..Len(Resolve(path.dir))},
     entries |-> IF path.name = <<>> THEN d.entries
                 ELSE d.entries \cup {Entry(Resolve(path.dir), path.name, "dir")}]

\* the orders in which a directory listing may come
Orderings(S) ==
    {s \in [1..Cardinality(S) -> S] :
        \A i, j \in 1..Cardinality(S) : i # j => s[i] # s[j]}

\* lines 349-358: the input path is a file
SingleFile(path) ==
    IF Lower(suffix(path.name)) = <<".", "p", "d", "f">>
    THEN IF Reserved(path) THEN <<>> ELSE <<path>>
    ELSE <<>>

\* lines 364-374: the PDF files of the base directory
BaseFiles(d, base, path) ==
    IF exists(d, base) /\ base # path
    THEN {f \in glob(d, base, FALSE) : is_file(d, f) /\ ~Reserved(f)}
    ELSE {}

\* lines 382-395: the PDF entries of the input directory
InputFiles(d, path, deep) ==
    IF exists(d, path) /\ is_dir(d, path)
    THEN {f \in glob(d, path, deep) : ~Reserved(f)}
    ELSE {}

\* line 401: f not in processed_files
NotYetProcessed(f, processed_files) == f \notin processed_files

\* lines 401-402
NewFiles(input_pdf_files, processed_files) ==
    SelectSeq(input_pdf_files, LAMBDA f : NotYetProcessed(f, processed_files))

\* the lists detect_files_to_process may return, one per order of the
\* directory listings
detect_files_to_process(d, base, path, deep) ==
    IF is_file(d, path) THEN { SingleFile(path) }
    ELSE {b \o NewFiles(n, {b[i] : i \in DOMAIN b}) :
            b \in Orderings(BaseFiles(d, base, path)),
            n \in Orderings(InputFiles(d, path, deep))}

\* names of files and directories
NameX == <<"x", ".", "p", "d", "f">>
NameY == <<"y", ".", "p", "d", "f">>
NameDb == <<"D", "b", ".", "p", "d", "f">>
NameIndex == <<"i", "n", "d", "e", "x", ".", "p", "d", "f">>
NameUpper == <<"u", ".", "P", "D", "F">>
NameIndexUpper == <<"I", "n", "d", "e", "x", ".", "P", "D", "F">>
NameNotes == <<"n", ".", "t", "x", "t">>
NameDir == <<"d", ".", "p", "d", "f">>

Dataset == <<"work", "dataset">>
DatasetPdf == <<"work", "dataset", "pdf">>
DatasetPdfSub == <<"work", "dataset", "pdf", "sub">>

EntryPalette ==
    { Entry(Dataset, NameX, "file"), Entry(Dataset, NameDb, "file"),
      Entry(Dataset, NameNotes, "file"), Entry(Dataset, NameIndexUpper, "file"),
      Entry(DatasetPdf, NameY, "file"), Entry(DatasetPdf, NameIndex, "file"),
      Entry(DatasetPdf, NameUpper, "file"), Entry(DatasetPdf, NameDir, "dir"),
      Entry(DatasetPdfSub, NameX, "file") }

Disks ==
    {[dirs |-> {<<>>, <<"work">>, Dataset, DatasetPdf, DatasetPdfSub},
      entries |-> E] :
        E \in {S \in SUBSET EntryPalette : Cardinality(S) <= MaxDiskEntries}}

BaseDirs == { Path(<<"dataset">>, <<>>), Path(<<"nobase">>, <<>>) }

\* input paths: directories in several spellings, a directory that does not
\* exist, and single files
InputPaths ==
    { Path(<<"dataset", "pdf">>, <<>>), Path(<<"dataset">>, <<>>),
      Path(<<>>, <<>>), Path(<<"/", "work", "dataset">>, <<>>),
      Path(<<"dataset", "pdf", "..">>, <<>>), Path(<<"dataset", "new">>, <<>>),
      Path(<<"dataset">>, NameX), Path(<<"dataset">>, NameDb),
      Path(<<"dataset">>, NameNotes), Path(<<"dataset">>, NameIndexUpper),
      Path(<<"dataset", "pdf">>, NameUpper), Path(<<"dataset", "pdf">>, NameDir) }

IdleDetect ==
    /\ disk = [dirs |-> {}, entries |-> {}]
    /\ base_dir = Path(<<>>, <<>>)
    /\ input_path = Path(<<>>, <<>>)
    /\ recursive = FALSE

\* blocks without a bounding box: no position key, or position null
BNoBox == [page |-> 1, lines |-> << <<"Add", " ", "equipment">> >>]
BNullBox ==
    [page |-> 1, lines |-> << <<"Add", " ", "equipment">> >>, position |-> None]
BNullBoxTwoLines ==
    [page |-> 1, lines |-> << <<"Type", ":">>, <<"Splitter">> >>, position |-> None]

BoxlessPalette == { BNoBox, BNullBox, BNullBoxTwoLines, BAddEquipment, BType }

BoxlessDocs ==
    {RecordDoc(d) : d \in DocsOver(BoxlessPalette, MaxBoxlessBlocks)}

Init ==
    /\ json_data \in {[content |-> [blocks |-> d]] : d \in InputDocs}
    /\ pc = "loaded"
    /\ error = ""
    /\ organized_data = EmptyOrganized
    /\ summary = EmptySummary
    /\ sc_blocks = <<>>
    /\ so_blocks = <<>>
    /\ fp_groups = <<>>
    /\ fp_titles = <<>>
    /\ IdleConverter
    /\ IdleBatch
    /\ IdleDetect

\* organized_data = organize_json(json_data); an exception ends the program
OrganizeJson ==
    /\ pc = "loaded"
    /\ IF Raises(Blocks(json_data))
       THEN /\ pc' = "raised"
            /\ error' = "TypeError"
            /\ UNCHANGED <<organized_data, sc_blocks, so_blocks, fp_groups,
                           fp_titles>>
       ELSE /\ pc' = "organized"
            /\ error' = ""
            /\ organized_data' = organize_json(json_data)
            /\ sc_blocks' = ScBlocks(Blocks(json_data))
            /\ so_blocks' = SoBlocks(Blocks(json_data))
            /\ fp_groups' = FpGroups(SoBlocks(Blocks(json_data)))
            /\ fp_titles' = FpTitles(SoBlocks(Blocks(json_data)))
    /\ UNCHANGED <<json_data, summary, conv_vars, batch_vars,
                   detect_vars>>

\* summary_data = create_summary_json(organized_data)
CreateSummaryJson ==
    /\ pc = "organized"
    /\ summary' = create_summary_json(organized_data)
    /\ pc' = "summarized"
    /\ UNCHANGED <<json_data, error, organized_data, sc_blocks, so_blocks,
                   fp_groups, fp_titles, conv_vars, batch_vars,
                   detect_vars>>

Next == OrganizeJson \/ CreateSummaryJson

Spec == Init /\ [][Next]_vars

\* lines 241 and 245: a list of blocks replaced by the list of their lines
CleanBlocks(blocks) ==
    [i \in DOMAIN blocks |->
        IF "lines" \in DOMAIN blocks[i] THEN blocks[i].lines ELSE <<>>]

\* lines 239-245 for one flexibility point
CleanFp(fp_data) ==
    [info |-> CleanBlocks(fp_data.info),
     state_sections |->
        [i \in DOMAIN fp_data.state_sections |->
            <<fp_data.state_sections[i][1],
              CleanBlocks(fp_data.state_sections[i][2])>>]]

\* lines 232-247: the dicts of the argument are assigned into, and the
\* argument itself is returned
clean_structure(od) ==
    [od EXCEPT !.FlexibilityPoints =
        [i \in DOMAIN od.FlexibilityPoints |->
            <<od.FlexibilityPoints[i][1], CleanFp(od.FlexibilityPoints[i][2])>>]]

\* cleaned_data = clean_structure(organized_data): organized_data names the
\* object the call works on, which is also the object it returns
CleanStructure ==
    /\ pc \in {"organized", "summarized"}
    /\ organized_data' = clean_structure(organized_data)
    /\ pc' = "cleaned"
    /\ UNCHANGED <<json_data, error, summary, sc_blocks, so_blocks,
                   fp_groups, fp_titles, conv_vars, batch_vars,
                   detect_vars>>

NextClean == OrganizeJson \/ CreateSummaryJson \/ CleanStructure

InitClean ==
    /\ json_data \in {[content |-> [blocks |-> d]] : d \in HeaderDocs \cup NotesDocs}
    /\ pc = "loaded"
    /\ error = ""
    /\ organized_data = EmptyOrganized
    /\ summary = EmptySummary
    /\ sc_blocks = <<>>
    /\ so_blocks = <<>>
    /\ fp_groups = <<>>
    /\ fp_titles = <<>>
    /\ IdleConverter
    /\ IdleBatch
    /\ IdleDetect

SpecClean == InitClean /\ [][NextClean]_vars

\* the same program on documents whose blocks may lack a bounding box
InitBoxless ==
    /\ json_data \in {[content |-> [blocks |-> d]] : d \in BoxlessDocs}
    /\ pc = "loaded"
    /\ error = ""
    /\ organized_data = EmptyOrganized
    /\ summary = EmptySummary
    /\ sc_blocks = <<>>
    /\ so_blocks = <<>>
    /\ fp_groups = <<>>
    /\ fp_titles = <<>>
    /\ IdleConverter
    /\ IdleBatch
    /\ IdleDetect

SpecBoxless == InitBoxless /\ [][Next]_vars

\* pdf_converter_single.py, extract_text_from_pdf_doc from the sort on
ExtractTextFromPdfDoc ==
    /\ pc = "appended"
    /\ converter = "pdf_converter_single"
    /\ document_blocks' = NumberBlocks(SortBlocks(extracted))
    /\ document_raw_text' = RStripNewlines(RawOfBlocks(SortBlocks(extracted)))
    /\ pc' = "extracted"
    /\ UNCHANGED <<json_data, error, organized_data, summary, sc_blocks,
                   so_blocks, fp_groups, fp_titles, converter, extracted,
                   batch_vars, detect_vars>>

\* pdf_converter.py, PDFConverter.extract_text_from_pdf from the sort on
ExtractTextFromPdf ==
    /\ pc = "appended"
    /\ converter = "pdf_converter"
    /\ document_blocks' = NumberBlocks(SortBlocks(extracted))
    /\ document_raw_text' = RawOfLines(SortBlocks(extracted))
    /\ pc' = "extracted"
    /\ UNCHANGED <<json_data, error, organized_data, summary, sc_blocks,
                   so_blocks, fp_groups, fp_titles, converter, extracted,
                   batch_vars, detect_vars>>

\* the JSON the converter hands on, which the organizer then loads
CreateJsonStructure ==
    /\ pc = "extracted"
    /\ json_data' = create_json_structure(document_blocks, document_raw_text)
    /\ pc' = "loaded"
    /\ UNCHANGED <<error, organized_data, summary, sc_blocks, so_blocks,
                   fp_groups, fp_titles, conv_vars, batch_vars,
                   detect_vars>>

InitConvert ==
    /\ \/ /\ converter = "pdf_converter_single"
          /\ extracted \in DocsOver(ExtractedBlockPalette, MaxExtracted)
       \/ /\ converter = "pdf_converter"
          /\ extracted \in DocsOver(ExtractedLinePalette, MaxExtracted)
    /\ document_blocks = <<>>
    /\ document_raw_text = <<>>
    /\ json_data = [content |-> [lines |-> <<>>]]
    /\ pc = "appended"
    /\ error = ""
    /\ organized_data = EmptyOrganized
    /\ summary = EmptySummary
    /\ sc_blocks = <<>>
    /\ so_blocks = <<>>
    /\ fp_groups = <<>>
    /\ fp_titles = <<>>
    /\ IdleBatch
    /\ IdleDetect

\* a converter run followed by organize_json on its output
NextConvert ==
    \/ ExtractTextFromPdfDoc
    \/ ExtractTextFromPdf
    \/ CreateJsonStructure
    \/ OrganizeJson

SpecConvert == InitConvert /\ [][NextConvert]_vars

org_vars == <<json_data, error, organized_data, summary, sc_blocks, so_blocks,
              fp_groups, fp_titles>>

\* main up to the loop: nothing to do without files
BeginRun ==
    /\ pc = "detected"
    /\ pc' = IF pdf_files = <<>> THEN "done" ELSE "converting"
    /\ UNCHANGED <<org_vars, conv_vars, batch_vars,
                   detect_vars>>

\* one iteration of the loop over the files: process_file in try/except
ProcessFile ==
    /\ pc = "converting"
    /\ LoopGoesOn(results, pdf_files)
    /\ LET file == pdf_files[Len(results) + 1]
           call == process_file(program, overwrite, output_dir, file, runs)
       IN  /\ results' = Append(results, <<file, StatusOf(call.ret)>>)
           /\ output_dir' = call.out
           /\ calls' = Append(calls,
                  [file |-> file, before |-> output_dir[file.stem],
                   after |-> call.out[file.stem], ret |-> call.ret,
                   status |-> StatusOf(call.ret), overwrite |-> overwrite,
                   program |-> program, run |-> runs])
    /\ UNCHANGED <<pc, org_vars, conv_vars, program, overwrite, pdf_files, runs,
                   detect_vars>>

\* after the loop: the counts are logged and the run is over
Summarize ==
    /\ pc = "converting"
    /\ ~LoopGoesOn(results, pdf_files)
    /\ pc' = "done"
    /\ UNCHANGED <<org_vars, conv_vars, batch_vars,
                   detect_vars>>

\* the program is started again on the same files and output directory
StartAgain ==
    /\ pc = "done"
    /\ runs < MaxRuns
    /\ runs' = runs + 1
    /\ overwrite' \in BOOLEAN
    /\ results' = <<>>
    /\ pc' = "detected"
    /\ UNCHANGED <<org_vars, conv_vars, program, pdf_files, output_dir, calls,
                   detect_vars>>

FileLists ==
    {l \in DocsOver(PdfFiles, MaxBatch) :
        \A i, j \in DOMAIN l : i # j => l[i] # l[j]}

InitBatch ==
    /\ program \in {"pdf_converter", "pdf_converter_batch"}
    /\ overwrite \in BOOLEAN
    /\ pdf_files \in FileLists
    /\ output_dir \in [Stems -> {None, OldJson}]
    /\ results = <<>>
    /\ runs = 1
    /\ calls = <<>>
    /\ pc = "detected"
    /\ json_data = [content |-> [lines |-> <<>>]]
    /\ error = ""
    /\ organized_data = EmptyOrganized
    /\ summary = EmptySummary
    /\ sc_blocks = <<>>
    /\ so_blocks = <<>>
    /\ fp_groups = <<>>
    /\ fp_titles = <<>>
    /\ IdleConverter
    /\ IdleDetect

NextBatch == BeginRun \/ ProcessFile \/ Summarize \/ StartAgain

SpecBatch == InitBatch /\ [][NextBatch]_vars

\* pdf_files_to_process = detect_files_to_process(base_dir, input_path,
\* recursive), with the directory it creates for a missing input path
DetectFilesToProcess ==
    /\ pc = "started"
    /\ pdf_files' \in detect_files_to_process(disk, base_dir, input_path, recursive)
    /\ disk' = IF ~is_file(disk, input_path) /\ ~exists(disk, input_path)
               THEN mkdir(disk, input_path)
               ELSE disk
    /\ pc' = "detected"
    /\ UNCHANGED <<org_vars, conv_vars, program, overwrite, output_dir, results,
                   runs, calls, base_dir, input_path, recursive>>

InitDetect ==
    /\ disk \in Disks
    /\ base_dir \in BaseDirs
    /\ input_path \in InputPaths
    /\ recursive \in BOOLEAN
    /\ pc = "started"
    /\ json_data = [content |-> [lines |-> <<>>]]
    /\ error = ""
    /\ organized_data = EmptyOrganized
    /\ summary = EmptySummary
    /\ sc_blocks = <<>>
    /\ so_blocks = <<>>
    /\ fp_groups = <<>>
    /\ fp_titles = <<>>
    /\ IdleConverter
    /\ IdleBatch

NextDetect == DetectFilesToProcess

SpecDetect == InitDetect /\ [][NextDetect]_vars

TypeOK ==
    /\ pc \in {"loaded", "organized", "raised", "summarized", "cleaned",
              "appended", "extracted", "started", "detected", "converting",
              "done"}
    /\ error \in {"", "TypeError"}

(* ---------------------------------------------------------------------- *)
(* Vocabulary of the properties                                            *)
(* ---------------------------------------------------------------------- *)
InputBlocks == Blocks(json_data)
Organized == pc \in {"organized", "summarized"}
Returned == pc # "loaded"

\* 1-based positions of the blocks whose key line contains the keyword
MarkerPositions(blocks, keyword) ==
    {p \in DOMAIN blocks : KeyMatches(blocks[p], keyword)}

FirstPos(S) == CHOOSE p \in S : \A q \in S : p <= q

RECURSIVE Flatten(_)
Flatten(seqs) ==
    IF seqs = <<>> THEN <<>> ELSE Head(seqs) \o Flatten(Tail(seqs))

(* ---------------------------------------------------------------------- *)
(* C1  End-to-end scenario: organizing and summarizing the eight-fragment  *)
(* scenario yields subscriber address "123 Main St", identifier "SVC-42"   *)
(* and the single record FP-A with address "5 Cable Rd" and the action     *)
(* "Add equipment" holding Type = Splitter.                                *)
(* ---------------------------------------------------------------------- *)
ScenarioSummary ==
    [SubscriberAddress |-> <<"123 Main St">>,
     LID |-> <<"SVC-42">>,
     FlexibilityPoints |->
        << [name    |-> <<"FP-A">>,
            address |-> <<"5 Cable Rd">>,
            actions |-> << << <<"Add", " ", "equipment">>,
                              << << <<"Type">>, <<"Splitter">> >> >> >> >>] >>]

C1_ScenarioSummary ==
    (pc = "summarized" /\ InputBlocks = Scenario) => summary = ScenarioSummary

(* ---------------------------------------------------------------------- *)
(* C2  Section bound totality: when a "Service Configurations" block       *)
(* precedes the first "Site Operations" block, the section scanned for     *)
(* fields contains every block strictly between the two markers.           *)
(* ---------------------------------------------------------------------- *)
C2_SectionBoundTotality ==
    Organized =>
        LET sc == MarkerPositions(InputBlocks, KwServiceConfigurations)
            so == MarkerPositions(InputBlocks, KwSiteOperations)
        IN  (sc # {} /\ so # {} /\ FirstPos(sc) < FirstPos(so)) =>
                Contains(sc_blocks,
                         SubSeq(InputBlocks, FirstPos(sc) + 1, FirstPos(so) - 1))

(* ---------------------------------------------------------------------- *)
(* C3  Without a "file://" sentinel the Site-Operations section runs from  *)
(* the "Site Operations" block through the last block of the document.     *)
(* ---------------------------------------------------------------------- *)
C3_NoSentinelRunsToEnd ==
    (Organized /\ MarkerPositions(InputBlocks, KwFile) = {}) =>
        so_blocks =
            SubSeq(InputBlocks,
                   FirstPos(MarkerPositions(InputBlocks, KwSiteOperations)),
                   Len(InputBlocks))

(* ---------------------------------------------------------------------- *)
(* C4  A missing section start marker is not an error: organize_json       *)
(* returns normally, with an empty field map when "Service                 *)
(* Configurations" is absent and with no flexibility points when "Site     *)
(* Operations" is absent.                                                  *)
(* ---------------------------------------------------------------------- *)
C4_AbsentMarkerEmptySection ==
    Returned =>
        /\ MarkerPositions(InputBlocks, KwServiceConfigurations) = {} =>
              (pc # "raised" /\ organized_data.ServiceConfigurations = <<>>)
        /\ MarkerPositions(InputBlocks, KwSiteOperations) = {} =>
              (pc # "raised" /\ organized_data.FlexibilityPoints = <<>>)

(* ---------------------------------------------------------------------- *)
(* C5  The end of the Site-Operations section depends only on the blocks   *)
(* from its start marker on: the end index is never smaller than the       *)
(* start index, and the section is the one found when the blocks before    *)
(* the marker (an earlier "file://" footer among them) are left out.       *)
(* ---------------------------------------------------------------------- *)
C5_EndAfterStart ==
    Organized =>
        LET s == FirstPos(MarkerPositions(InputBlocks, KwSiteOperations))
        IN  /\ SoEndBlockNo(InputBlocks) >= s - 1
            /\ so_blocks = SoBlocks(SubSeq(InputBlocks, s, Len(InputBlocks)))

(* ---------------------------------------------------------------------- *)
(* Field extraction vocabulary                                             *)
(* ---------------------------------------------------------------------- *)
Labels == {line_keys[i] : i \in DOMAIN line_keys}

HasValue(block) == Len(block.lines) > 1 /\ Join(Tail(block.lines)) # <<>>

\* positions of the blocks that match the label and carry a non-empty value
ValuedMatches(blocks, key) ==
    {p \in DOMAIN blocks : KeyMatches(blocks[p], key) /\ HasValue(blocks[p])}

NamesBothLabels(block) == \A key \in Labels : KeyMatches(block, key)

StoredFor(block) ==
    DictGet(organized_data.ServiceConfigurations,
            standardize_key(block.lines[1]), <<>>)

(* ---------------------------------------------------------------------- *)
(* C6  Field extraction is first-match-wins: when two blocks of the        *)
(* service-configuration section match the same label with a non-empty     *)
(* value, the stored value is that of the first one in document order.     *)
(* ---------------------------------------------------------------------- *)
C6_FirstMatchWins ==
    Organized =>
        \A key \in Labels :
            LET M == ValuedMatches(sc_blocks, key) IN
            Cardinality(M) >= 2 =>
                StoredFor(sc_blocks[FirstPos(M)]) =
                    Join(Tail(sc_blocks[FirstPos(M)].lines))

\* C6 as amended: first-match-wins in every section none of whose key lines
\* names both labels at once.
C6_FirstMatchWinsOneLabelPerLine ==
    (Organized /\ \A p \in DOMAIN sc_blocks : ~NamesBothLabels(sc_blocks[p])) =>
        \A key \in Labels :
            LET M == ValuedMatches(sc_blocks, key) IN
            Cardinality(M) >= 2 =>
                StoredFor(sc_blocks[FirstPos(M)]) =
                    Join(Tail(sc_blocks[FirstPos(M)].lines))

C6_Witness ==
    /\ Organized
    /\ \A p \in DOMAIN sc_blocks : ~NamesBothLabels(sc_blocks[p])
    /\ \E key \in Labels :
          \E p, q \in ValuedMatches(sc_blocks, key) :
              /\ p < q
              /\ Tail(sc_blocks[p].lines) # Tail(sc_blocks[q].lines)
              /\ StoredFor(sc_blocks[p]) = Join(Tail(sc_blocks[p].lines))

(* ---------------------------------------------------------------------- *)
(* C7  A label matched only by blocks without a value (no value line, or   *)
(* an empty joined value) is absent from the field map and raises          *)
(* nothing; such a block does not mark the label as found, so the first    *)
(* later block with a non-empty value supplies it.                         *)
(* ---------------------------------------------------------------------- *)
C7_ValuelessLabelAbsent ==
    /\ pc = "raised" => MarkerPositions(InputBlocks, KwSiteOperations) = {}
    /\ Organized =>
          \A key \in Labels :
              LET M == ValuedMatches(sc_blocks, key) IN
              /\ M = {} =>
                    ~DictHas(organized_data.ServiceConfigurations,
                             standardize_key(key))
              /\ M # {} =>
                    /\ DictHas(organized_data.ServiceConfigurations,
                               standardize_key(sc_blocks[FirstPos(M)].lines[1]))
                    /\ sc_blocks[FirstPos(M)].lines[1] = key =>
                          StoredFor(sc_blocks[FirstPos(M)]) =
                              Join(Tail(sc_blocks[FirstPos(M)].lines))

C7_Witness ==
    /\ Organized
    /\ \E key \in Labels :
          /\ ValuedMatches(sc_blocks, key) = {}
          /\ \E p, q \in DOMAIN sc_blocks :
                /\ KeyMatches(sc_blocks[p], key) /\ Len(sc_blocks[p].lines) = 1
                /\ KeyMatches(sc_blocks[q], key) /\ Len(sc_blocks[q].lines) > 1
          /\ ~DictHas(organized_data.ServiceConfigurations, standardize_key(key))

(* ---------------------------------------------------------------------- *)
(* C8  With no "Flexibility point" key line anywhere, organize_json        *)
(* raises nothing and returns no flexibility points, so the summary has    *)
(* no records.                                                             *)
(* ---------------------------------------------------------------------- *)
C8_NoMarkersNoRecords ==
    (Returned /\ MarkerPositions(InputBlocks, KwFlexibilityPoint) = {}) =>
        /\ pc # "raised"
        /\ organized_data.FlexibilityPoints = <<>>
        /\ pc = "summarized" => summary.FlexibilityPoints = <<>>

(* ---------------------------------------------------------------------- *)
(* C9  Record grouping coverage: the blocks held by the records of the     *)
(* output (info, then the sections), concatenated in order, are exactly    *)
(* the Site-Operations blocks.                                             *)
(* ---------------------------------------------------------------------- *)
RecordFragments(fp) ==
    fp.info \o
    Flatten([i \in DOMAIN fp.state_sections |-> fp.state_sections[i][2]])

C9_RecordsCoverSection ==
    Organized =>
        Flatten([i \in DOMAIN organized_data.FlexibilityPoints |->
                    RecordFragments(organized_data.FlexibilityPoints[i][2])])
            = so_blocks

\* C9 as amended: the spans cut for the successive markers, concatenated,
\* are exactly the Site-Operations blocks from the first marker on.
C9_SpansCoverFromFirstMarker ==
    Organized =>
        LET B == MarkerPositions(so_blocks, KwFlexibilityPoint) IN
        Flatten(fp_groups) =
            IF B = {} THEN <<>>
            ELSE SubSeq(so_blocks, FirstPos(B), Len(so_blocks))

C9_Witness ==
    /\ Organized
    /\ Len(fp_groups) >= 2
    /\ FirstPos(MarkerPositions(so_blocks, KwFlexibilityPoint)) > 1
    /\ Len(Flatten(fp_groups)) >= 3

(* ---------------------------------------------------------------------- *)
(* C10  With the marker positions b[0] < ... < b[k-1] in the               *)
(* Site-Operations blocks, the i-th record is given the blocks at          *)
(* positions b[i] up to but excluding b[i+1], the last record those from   *)
(* b[k-1] to the end.                                                      *)
(* ---------------------------------------------------------------------- *)
C10_RecordSpans ==
    Organized =>
        LET B == MarkerPositions(so_blocks, KwFlexibilityPoint) IN
        /\ Len(fp_groups) = Cardinality(B)
        /\ \A p \in B :
              LET i    == Cardinality({q \in B : q <= p})
                  rest == {q \in B : q > p}
                  stop == IF rest = {} THEN Len(so_blocks) ELSE FirstPos(rest) - 1
              IN  fp_groups[i] = SubSeq(so_blocks, p, stop)

C10_Witness ==
    /\ Organized
    /\ Len(fp_groups) >= 2
    /\ \E i \in DOMAIN fp_groups : Len(fp_groups[i]) >= 2
    /\ \E i \in DOMAIN fp_groups : Len(fp_groups[i]) = 1

(* ---------------------------------------------------------------------- *)
(* Record vocabulary                                                       *)
(* ---------------------------------------------------------------------- *)
FlexPoints == organized_data.FlexibilityPoints

Titles == {fp_titles[i] : i \in DOMAIN fp_titles}

\* the last loop iteration that produced the title
LastWithTitle(t) ==
    CHOOSE i \in DOMAIN fp_titles :
        fp_titles[i] = t /\ \A j \in DOMAIN fp_titles : j > i => fp_titles[j] # t

\* the fragments of the record an entry of the output was built from
GroupOfEntry(e) == fp_groups[LastWithTitle(FlexPoints[e][1])]

\* exactly one line, left edge strictly beyond 80
SingleLineBeyond80(block) == Len(block.lines) = 1 /\ block.position[1] > 80

HeaderPositions(g) == {p \in DOMAIN g : SingleLineBeyond80(g[p])}

NextHeaderOrEnd(g, p) ==
    IF {q \in HeaderPositions(g) : q > p} = {} THEN Len(g) + 1
    ELSE FirstPos({q \in HeaderPositions(g) : q > p})

(* ---------------------------------------------------------------------- *)
(* C11  Title derivation: the title of the n-th record is the second line  *)
(* of its marker block when that line exists and is not empty, and         *)
(* "Flexibility Point n" otherwise; every title is a key of the output.    *)
(* ---------------------------------------------------------------------- *)
C11_TitleDerivation ==
    Organized =>
        LET B == MarkerPositions(so_blocks, KwFlexibilityPoint) IN
        /\ Len(fp_titles) = Cardinality(B)
        /\ \A p \in B :
              LET n == Cardinality({q \in B : q <= p})
                  m == so_blocks[p]
              IN  fp_titles[n] =
                     IF Len(m.lines) >= 2 /\ m.lines[2] # <<>>
                     THEN m.lines[2]
                     ELSE <<"Flexibility Point ", ToString(n)>>
        /\ DictKeys(FlexPoints) = Titles

C11_Witness ==
    /\ Organized
    /\ \E i, j, k \in DOMAIN fp_titles :
          /\ i > 1 /\ j > 1
          /\ Len(fp_groups[i][1].lines) = 1
          /\ fp_titles[i] = <<"Flexibility Point ", ToString(i)>>
          /\ Len(fp_groups[j][1].lines) = 2 /\ fp_groups[j][1].lines[2] = <<>>
          /\ fp_titles[j] = <<"Flexibility Point ", ToString(j)>>
          /\ fp_titles[k] = <<"FP-A">>

(* ---------------------------------------------------------------------- *)
(* C12  Title collisions are not deduplicated: records with the same       *)
(* title share one entry of the output, and that entry holds the content   *)
(* of the last of them.                                                    *)
(* ---------------------------------------------------------------------- *)
C12_LaterRecordOverwrites ==
    Organized =>
        /\ Len(FlexPoints) = Cardinality(Titles)
        /\ \A t \in Titles :
              DictGet(FlexPoints, t, <<>>) = OrganizedFp(fp_groups[LastWithTitle(t)])

C12_Witness ==
    /\ Organized
    /\ \E i, j \in DOMAIN fp_titles :
          /\ i < j
          /\ fp_titles[i] = fp_titles[j]
          /\ j = LastWithTitle(fp_titles[j])
          /\ fp_groups[i] # fp_groups[j]
          /\ Len(fp_groups[i]) > Len(fp_groups[j])
          /\ RecordFragments(DictGet(FlexPoints, fp_titles[j], <<>>)) = fp_groups[j]

(* ---------------------------------------------------------------------- *)
(* C13  A block is a subsection header iff it has exactly one line and     *)
(* its x0 is strictly greater than 80: in every record of the output the   *)
(* first block of each section is such a block, and no other block of      *)
(* the record (in info or later in a section) is.                          *)
(* ---------------------------------------------------------------------- *)
C13_HeaderDetection ==
    Organized =>
        \A e \in DOMAIN FlexPoints :
            LET fp == FlexPoints[e][2] IN
            /\ \A k \in DOMAIN fp.info : ~SingleLineBeyond80(fp.info[k])
            /\ \A s \in DOMAIN fp.state_sections :
                  LET L == fp.state_sections[s][2] IN
                  /\ L # <<>>
                  /\ SingleLineBeyond80(L[1])
                  /\ \A k \in 2..Len(L) : ~SingleLineBeyond80(L[k])

C13_Witness ==
    /\ Organized
    /\ \E e \in DOMAIN FlexPoints :
          LET fp  == FlexPoints[e][2]
              all == RecordFragments(fp)
          IN  /\ \E s \in DOMAIN fp.state_sections :
                    fp.state_sections[s][2][1].position[1] = 85
              /\ \E k \in DOMAIN all :
                    Len(all[k].lines) = 1 /\ all[k].position[1] = 80
              /\ \E k \in DOMAIN all :
                    Len(all[k].lines) = 1 /\ all[k].position[1] = 79
              /\ \E k \in DOMAIN all :
                    Len(all[k].lines) = 2 /\ all[k].position[1] = 85

(* ---------------------------------------------------------------------- *)
(* C14  The info list of a record is the record's blocks strictly before   *)
(* its first subsection header; without a header info is the whole record  *)
(* and the sections mapping is empty, and the call does not raise.         *)
(* ---------------------------------------------------------------------- *)
C14_InfoBeforeFirstHeader ==
    /\ pc = "raised" => MarkerPositions(InputBlocks, KwSiteOperations) = {}
    /\ Organized =>
        /\ DictKeys(FlexPoints) \subseteq Titles
        /\ \A e \in DOMAIN FlexPoints :
              LET fp == FlexPoints[e][2]
                  g  == GroupOfEntry(e)
              IN  IF HeaderPositions(g) = {}
                  THEN fp.info = g /\ fp.state_sections = <<>>
                  ELSE fp.info = SubSeq(g, 1, FirstPos(HeaderPositions(g)) - 1)

C14_Witness ==
    /\ Organized
    /\ \E e \in DOMAIN FlexPoints :
          /\ HeaderPositions(GroupOfEntry(e)) # {}
          /\ Len(FlexPoints[e][2].info) >= 2
          /\ Len(FlexPoints[e][2].info) < Len(GroupOfEntry(e)) - 1

(* ---------------------------------------------------------------------- *)
(* C15  Every entry of a record's sections mapping is the run of blocks    *)
(* from one subsection header (inclusive, first in the list) to the next   *)
(* header (exclusive) or the end of the record, stored under the           *)
(* normalized text of the header line; every header has its key.           *)
(* ---------------------------------------------------------------------- *)
C15_SectionRuns ==
    Organized =>
        /\ DictKeys(FlexPoints) \subseteq Titles
        /\ \A e \in DOMAIN FlexPoints :
              LET fp == FlexPoints[e][2]
                  g  == GroupOfEntry(e)
              IN  /\ \A s \in DOMAIN fp.state_sections :
                        \E p \in HeaderPositions(g) :
                            /\ fp.state_sections[s][1] =
                                  standardize_key(g[p].lines[1])
                            /\ fp.state_sections[s][2] =
                                  SubSeq(g, p, NextHeaderOrEnd(g, p) - 1)
                  /\ \A p \in HeaderPositions(g) :
                        DictHas(fp.state_sections, standardize_key(g[p].lines[1]))

C15_Witness ==
    /\ Organized
    /\ \E e \in DOMAIN FlexPoints :
          LET sec == FlexPoints[e][2].state_sections IN
          /\ Len(sec) >= 2
          /\ sec[1][1] = <<"Remove", " ", "cable">>
          /\ Len(sec[1][2]) >= 2
          /\ Len(sec[2][2]) >= 2

(* ---------------------------------------------------------------------- *)
(* Summary vocabulary                                                      *)
(* ---------------------------------------------------------------------- *)
Summarized == pc = "summarized"

SummaryFps == summary.FlexibilityPoints

\* the line ends with the colon character itself
LastIsColon(line) == line # <<>> /\ line[Len(line)] = ":"

NoEdgeWhitespace(key) ==
    key = <<>> \/ (key[1] \notin Whitespace /\ key[Len(key)] \notin Whitespace)

SectionKeys == 
    UNION {DictKeys(FlexPoints[e][2].state_sections) : e \in DOMAIN FlexPoints}

(* ---------------------------------------------------------------------- *)
(* C16  Key normalization: every key produced by standardize_key has no    *)
(* leading or trailing whitespace, does not end with ':', and is left      *)
(* unchanged by a second normalization.                                    *)
(* ---------------------------------------------------------------------- *)
C16_KeyNormalized ==
    Organized =>
        \A k \in SectionKeys :
            /\ NoEdgeWhitespace(k)
            /\ ~LastIsColon(k)
            /\ standardize_key(k) = k

(* ---------------------------------------------------------------------- *)
(* C17  The summary root holds the service-configuration values stored     *)
(* under "Subscriber address" and "Service ID", and the empty string for   *)
(* a label the map does not have.                                          *)
(* ---------------------------------------------------------------------- *)
C17_RootFields ==
    Summarized =>
        LET sc == organized_data.ServiceConfigurations IN
        /\ summary.SubscriberAddress =
              IF \E i \in DOMAIN sc : sc[i][1] = <<"Subscriber address">>
              THEN (CHOOSE v \in {sc[i][2] : i \in {j \in DOMAIN sc :
                                   sc[j][1] = <<"Subscriber address">>}} : TRUE)
              ELSE <<>>
        /\ summary.LID =
              IF \E i \in DOMAIN sc : sc[i][1] = <<"Service ID">>
              THEN (CHOOSE v \in {sc[i][2] : i \in {j \in DOMAIN sc :
                                   sc[j][1] = <<"Service ID">>}} : TRUE)
              ELSE <<>>

C17_Witness ==
    /\ Summarized
    /\ summary.SubscriberAddress = <<"123 Main St">>
    /\ ~DictHas(organized_data.ServiceConfigurations, <<"Service ID">>)
    /\ summary.LID = <<>>

(* ---------------------------------------------------------------------- *)
(* C18  Record address selection is first-match-wins: the address of a     *)
(* record in the summary is the line after "Address: " in the first info   *)
(* block whose first line starts with "Address: " and has a successor.     *)
(* ---------------------------------------------------------------------- *)
AddressBlocks(info) ==
    {p \in DOMAIN info :
        /\ Len(info[p].lines) >= 2
        /\ StartsWith(info[p].lines[1], <<"Address", ":", " ">>)}

C18_FirstAddressWins ==
    Summarized =>
        /\ Len(SummaryFps) = Len(FlexPoints)
        /\ \A e \in DOMAIN FlexPoints :
              LET info == FlexPoints[e][2].info IN
              AddressBlocks(info) # {} =>
                  SummaryFps[e].address = info[FirstPos(AddressBlocks(info))].lines[2]

(* ---------------------------------------------------------------------- *)
(* C19  Action filter: the keys of a record's actions in the summary are   *)
(* exactly the section headers of the record that contain "Add",           *)
(* "Connect" or "Remove" (case-sensitive); the other sections stay in the  *)
(* organized document only.                                                *)
(* ---------------------------------------------------------------------- *)
NamesAction(header) ==
    \E keyword \in {<<"Add">>, <<"Connect">>, <<"Remove">>} :
        Contains(header, keyword)

LaterBlocks(L) == {j \in 2..Len(L) : L[j].lines # <<>>}

C20_ActionPairs ==
    Summarized =>
        /\ Len(SummaryFps) = Len(FlexPoints)
        /\ \A e \in DOMAIN FlexPoints :
           \A s \in DOMAIN FlexPoints[e][2].state_sections :
              LET k       == FlexPoints[e][2].state_sections[s][1]
                  L       == FlexPoints[e][2].state_sections[s][2]
                  content == DictGet(SummaryFps[e].actions, k, <<>>)
              IN
              NamesAction(k) =>
                /\ DictHas(SummaryFps[e].actions, k)
                /\ \A c \in DictKeys(content) :
                      \E j \in LaterBlocks(L) :
                          \/ c = standardize_key(L[j].lines[1])
                          \/ c = <<"Notes">> /\ ~LastIsColon(L[j].lines[1])
                /\ \A j \in LaterBlocks(L) :
                      LET key == standardize_key(L[j].lines[1]) IN
                      LastIsColon(L[j].lines[1]) =>
                        /\ DictHas(content, key)
                        /\ ( /\ \A q \in LaterBlocks(L) :
                                    q > j => standardize_key(L[q].lines[1]) # key
                             /\ key = <<"Notes">> =>
                                    \A q \in LaterBlocks(L) :
                                        q > j => LastIsColon(L[q].lines[1]) )
                           => DictGet(content, key, <<>>) =
                                 IF Len(L[j].lines) > 1
                                 THEN Join(Tail(L[j].lines)) ELSE <<>>

C20_Witness ==
    /\ Summarized
    /\ \E e \in DOMAIN FlexPoints :
          LET sec == FlexPoints[e][2].state_sections
              act == SummaryFps[e].actions
          IN  /\ Len(sec) = 2
              /\ LastIsColon(sec[1][2][1].lines[1])
              /\ Len(sec[1][2]) = 2 /\ sec[1][2][2].lines = BType.lines
              /\ DictGet(act, sec[1][1], <<>>) = << <<<<"Type">>, <<"Splitter">>>> >>
              /\ Len(sec[2][2]) = 2 /\ sec[2][2][2].lines = BTypeNoValue.lines
              /\ DictGet(act, sec[2][1], <<>>) = << <<<<"Type">>, <<>>>> >>

(* ---------------------------------------------------------------------- *)
(* C21  Notes accumulation: in an action section the "Notes" entry is the  *)
(* concatenation, separated by newlines and in document order, of the      *)
(* newline-joined lines of every block after the header whose first line   *)
(* is not colon-terminated; a later such block appends, nothing replaces. *)
(* ---------------------------------------------------------------------- *)
NoteBlocks(L) == {j \in LaterBlocks(L) : ~EndsWithColon(L[j].lines[1])}

RECURSIVE NotesText(_, _)
NotesText(L, j) ==
    IF j > Len(L) THEN <<>>
    ELSE IF j \in NoteBlocks(L)
    THEN IF {q \in NoteBlocks(L) : q > j} = {} THEN Join(L[j].lines)
         ELSE Join(L[j].lines) \o <<"\n">> \o NotesText(L, j + 1)
    ELSE NotesText(L, j + 1)

C21_NotesAccumulate ==
    Summarized =>
        /\ Len(SummaryFps) = Len(FlexPoints)
        /\ \A e \in DOMAIN FlexPoints :
           \A s \in DOMAIN FlexPoints[e][2].state_sections :
              LET k       == FlexPoints[e][2].state_sections[s][1]
                  L       == FlexPoints[e][2].state_sections[s][2]
                  content == DictGet(SummaryFps[e].actions, k, <<>>)
              IN  (NamesAction(k) /\ NoteBlocks(L) # {}) =>
                    /\ DictHas(content, <<"Notes">>)
                    /\ DictGet(content, <<"Notes">>, <<>>) = NotesText(L, 2)

(* ---------------------------------------------------------------------- *)
(* C27  Subsection splitting partitions each record: info followed by the  *)
(* section lists, in order, is exactly the record's block span, also when  *)
(* two headers of the record normalize to the same key.                    *)
(* ---------------------------------------------------------------------- *)
C27_SplitPartitionsRecord ==
    Organized =>
        /\ DictKeys(FlexPoints) \subseteq Titles
        /\ \A e \in DOMAIN FlexPoints :
              RecordFragments(FlexPoints[e][2]) = GroupOfEntry(e)

(* ---------------------------------------------------------------------- *)
(* C28  A block without a bounding box (no position, or position null) is  *)
(* never a subsection header and does not make organize_json fail: the     *)
(* only failure is the one of a missing "Site Operations" marker, and      *)
(* every section of the output starts with a block that has a box.         *)
(* ---------------------------------------------------------------------- *)
HasBox(block) == "position" \in DOMAIN block /\ block.position # None

C28_BoxlessNeverHeaderNorFailure ==
    /\ pc = "raised" => MarkerPositions(InputBlocks, KwSiteOperations) = {}
    /\ Organized =>
          \A e \in DOMAIN FlexPoints :
              \A s \in DOMAIN FlexPoints[e][2].state_sections :
                  HasBox(FlexPoints[e][2].state_sections[s][2][1])

(* ---------------------------------------------------------------------- *)
(* C22  No component changes the structure it receives: whenever           *)
(* organize_json, create_summary_json or clean_structure has returned,     *)
(* the converter JSON is the document that was loaded and the organized    *)
(* document is still the one organize_json built from it.                  *)
(* ---------------------------------------------------------------------- *)
C22_ArgumentsUnchanged ==
    /\ Blocks(json_data) \in HeaderDocs \cup NotesDocs
    /\ pc \in {"organized", "summarized", "cleaned"} =>
          organized_data = organize_json(json_data)

(* ---------------------------------------------------------------------- *)
(* Converter vocabulary                                                    *)
(* ---------------------------------------------------------------------- *)
\* the reading position of a fragment: page, top edge, left edge
ReadingKey(b) ==
    IF b.position = <<>> THEN <<b.page, 0, 0>>
    ELSE <<b.page, b.position[2], b.position[1]>>

Before(a, b) ==
    \/ a[1] < b[1]
    \/ a[1] = b[1] /\ a[2] < b[2]
    \/ a[1] = b[1] /\ a[2] = b[2] /\ a[3] < b[3]

WithoutLineNum(b) == [f \in DOMAIN b \ {"line_num"} |-> b[f]]

Rearrangements(n) ==
    {f \in [1..n -> 1..n] : \A i, j \in 1..n : i # j => f[i] # f[j]}

C29_ConverterFeedsOrganizer ==
    ( /\ pc \in {"organized", "raised", "summarized"}
      /\ converter = "pdf_converter_single"
      /\ MarkerPositions(document_blocks, KwSiteOperations) # {}
      /\ MarkerPositions(document_blocks, KwFlexibilityPoint) # {} )
    => /\ InputBlocks = document_blocks
       /\ pc # "raised"
       /\ FlexPoints # <<>>

(* ---------------------------------------------------------------------- *)
(* C24  Batch isolation: a failure on one file does not stop the run.      *)
(* The result list follows the file list entry by entry, each entry has    *)
(* one of the statuses "success", "skipped", "failed", and when the run    *)
(* is over the two lists have the same length.                             *)
(* ---------------------------------------------------------------------- *)
C24_BatchIsolation ==
    pc \in {"converting", "done"} =>
        /\ Len(results) <= Len(pdf_files)
        /\ \A i \in DOMAIN results :
              /\ results[i][1] = pdf_files[i]
              /\ results[i][2] \in {"success", "skipped", "failed"}
        /\ pc = "done" => Len(results) = Len(pdf_files)

C24_Witness ==
    /\ pc = "done"
    /\ Len(results) = 3
    /\ results[1][2] = "failed"
    /\ results[2][2] = "success"
    /\ results[3][2] = "skipped"

(* ---------------------------------------------------------------------- *)
(* C25  Skip-existing: a process_file call made with overwrite disabled    *)
(* for a PDF whose output JSON exists returns None, is recorded as         *)
(* "skipped" and leaves the JSON as it was; an existing JSON is changed    *)
(* only by a call made with overwrite enabled.                             *)
(* ---------------------------------------------------------------------- *)
C25_SkipExisting ==
    \A c \in DOMAIN calls :
        /\ (calls[c].before # None /\ ~calls[c].overwrite) =>
              /\ calls[c].ret = "none"
              /\ calls[c].status = "skipped"
              /\ calls[c].after = calls[c].before
        /\ (calls[c].before # None /\ calls[c].after # calls[c].before) =>
              calls[c].overwrite

C25_Witness ==
    \E c, d \in DOMAIN calls :
        /\ c < d
        /\ calls[c].file = calls[d].file
        /\ calls[c].before # None /\ ~calls[c].overwrite
        /\ calls[c].status = "skipped"
        /\ calls[d].before = calls[c].after /\ calls[d].overwrite
        /\ calls[d].after # calls[d].before

(* ---------------------------------------------------------------------- *)
(* C30  pdf_converter.py: when the text extraction of a PDF raises, the    *)
(* file is not reported as "success" and no JSON is written for it, so a   *)
(* later call with overwrite disabled does not skip it.                    *)
(* ---------------------------------------------------------------------- *)
C30_ExtractionErrorNotSuccess ==
    \A c \in DOMAIN calls :
        (calls[c].program = "pdf_converter" /\ calls[c].file.kind = "corrupt"
            /\ calls[c].before = None) =>
            /\ calls[c].status # "success"
            /\ calls[c].after = None
            /\ \A d \in DOMAIN calls :
                  (d > c /\ calls[d].file = calls[c].file /\ ~calls[d].overwrite)
                      => calls[d].status # "skipped"

(* ---------------------------------------------------------------------- *)
(* C26  detect_files_to_process returns a list in which no path occurs     *)
(* twice, a file reachable both through the base directory and through the *)
(* input directory being listed once, and which contains no file whose     *)
(* lower-cased stem is a reserved name; a single input file that is not a  *)
(* .pdf or that has a reserved stem yields the empty list.                 *)
(* ---------------------------------------------------------------------- *)
\* the entry of the disk a listed path leads to
FileOf(path) == [dir |-> Resolve(path.dir), name |-> path.name]

NoPathTwice ==
    \A i, j \in DOMAIN pdf_files : i # j => pdf_files[i] # pdf_files[j]

NoFileTwice ==
    \A i, j \in DOMAIN pdf_files :
        i # j => FileOf(pdf_files[i]) # FileOf(pdf_files[j])

NoReservedStem ==
    \A i \in DOMAIN pdf_files :
        Lower(stem(pdf_files[i].name)) \notin DISALLOWED_FILE_NAMES

SingleFileRefused ==
    (/\ is_file(disk, input_path)
     /\ \/ Lower(suffix(input_path.name)) # <<".", "p", "d", "f">>
        \/ Lower(stem(input_path.name)) \in DISALLOWED_FILE_NAMES)
        => pdf_files = <<>>

C26_DetectedOnceNoReserved ==
    pc = "detected" =>
        /\ NoPathTwice
        /\ NoFileTwice
        /\ NoReservedStem
        /\ SingleFileRefused

\* what does hold: the list has no two equal Paths
C26_PathsOnly ==
    pc = "detected" => NoPathTwice /\ NoReservedStem /\ SingleFileRefused

====
